---- MODULE Spec2Model ----
(***************************************************************************)
(* A model of the healthcare scheduling application: the Django models of *)
(* src/healthcare/models.py, the REST serializers of serializers.py, the   *)
(* permission classes of permissions.py and the views of views.py.         *)
(*                                                                         *)
(* One action stands for one request (or one direct use of a model or a    *)
(* serializer): the URLconf imports the views, the view's permission       *)
(* classes are evaluated, then the serializer validates, then the model's  *)
(* save() validates and persists.  `last` records what the latest          *)
(* operation was and how it ended.                                         *)
(***************************************************************************)
EXTENDS Integers, FiniteSets, Sequences, TLC

(***************************************************************************)
(* Bounds of the model.                                                    *)
(***************************************************************************)
\* The clock and the times a request can carry range over 0..MaxTime.
MaxTime == 2
\* Appointment rows are identified by 1..MaxAppts.
MaxAppts == 1
\* MedicalRecord rows are identified by 1..MaxRecords.
MaxRecords == 1

\* A request field that is not sent: a reference or a status, and a time.
Absent == "absent"

NoTime == 0 - 1

\* A date sent as null, and a number that is not sent.
NullDate == 0 - 2

NoNumber == 0 - 9

(***************************************************************************)
(* Users (models.py, class User) and the actors of requests.               *)
(* A user has a role and the is_staff flag of AbstractUser.  The anonymous *)
(* actor is no User: it has is_staff = False and no role attribute.        *)
(***************************************************************************)
Users == {"admin", "doc", "pat", "staffdoc", "staffpat", "plainadmin"}

Anonymous == "anon"

Actors == Users \cup {Anonymous}

role(u) ==
    CASE u \in {"admin", "plainadmin"} -> "admin"
      [] u \in {"doc", "staffdoc"}     -> "doctor"
      [] u \in {"pat", "staffpat"}     -> "patient"

is_staff(u) == u \in {"admin", "staffdoc", "staffpat"}

is_authenticated(u) == u \in Users

(***************************************************************************)
(* permissions.py.  A permission class answers "allow" or "deny"; reading   *)
(* request.user.role of the anonymous actor raises AttributeError, which   *)
(* is the answer "error" (the request ends 500, the handler is not run).   *)
(***************************************************************************)
SAFE_METHODS == {"GET", "HEAD", "OPTIONS"}

IsAuthenticated(method, u) ==
    IF is_authenticated(u) THEN "allow" ELSE "deny"

IsAdminOrReadOnly(method, u) ==
    IF method \in SAFE_METHODS THEN "allow"
    ELSE IF is_staff(u) THEN "allow" ELSE "deny"

IsDoctorOrReadOnly(method, u) ==
    IF method \in SAFE_METHODS THEN "allow"
    ELSE IF u = Anonymous THEN "error"
    ELSE IF role(u) = "doctor" THEN "allow" ELSE "deny"

\* permissions.py IsPatientOrReadOnly: like IsDoctorOrReadOnly, for the patient role.
IsPatientOrReadOnly(method, u) ==
    IF method \in SAFE_METHODS THEN "allow"
    ELSE IF u = Anonymous THEN "error"
    ELSE IF role(u) = "patient" THEN "allow" ELSE "deny"

HasPermission(class, method, u) ==
    CASE class = "IsAuthenticated"     -> IsAuthenticated(method, u)
      [] class = "IsAdminOrReadOnly"   -> IsAdminOrReadOnly(method, u)
      [] class = "IsDoctorOrReadOnly"  -> IsDoctorOrReadOnly(method, u)
      [] class = "IsPatientOrReadOnly" -> IsPatientOrReadOnly(method, u)

(***************************************************************************)
(* views.py: each routed view with its permission_classes (in order), the  *)
(* model its serializer works on and its generic base class.                *)
(* DoctorAppointmentScheduleView names generics.ListUpdateAPIView as its    *)
(* base, a class rest_framework.generics does not have: its class statement *)
(* raises AttributeError while views.py is imported, urls.py imports        *)
(* views.py, and so no route answers a request: every request ends with     *)
(* that error before a permission class or a handler is reached.            *)
(***************************************************************************)
Views == {"DoctorListCreateView", "DoctorRetrieveUpdateDestroyView",
          "PatientListCreateView", "PatientRetrieveUpdateDestroyView",
          "PatientMedicalHistoryView", "AvailableDoctorsView",
          "DoctorAppointmentScheduleView", "AppointmentReminderView",
          "MedicalRecordListCreateView",
          "MedicalRecordRetrieveUpdateDestroyView",
          "DoctorProfileView", "PatientProfileView"}

permission_classes(view) ==
    CASE view = "DoctorListCreateView"             -> <<"IsAdminOrReadOnly">>
      [] view = "DoctorRetrieveUpdateDestroyView"  -> <<"IsAdminOrReadOnly">>
      [] view = "PatientListCreateView"            -> <<"IsAdminOrReadOnly">>
      [] view = "PatientRetrieveUpdateDestroyView" ->
             <<"IsPatientOrReadOnly", "IsAdminOrReadOnly">>
      [] view = "PatientMedicalHistoryView"        ->
             <<"IsAuthenticated", "IsPatientOrReadOnly">>
      [] view = "AvailableDoctorsView"             -> <<"IsAuthenticated">>
      [] view = "DoctorAppointmentScheduleView"    ->
             <<"IsAuthenticated", "IsDoctorOrReadOnly">>
      [] view = "AppointmentReminderView"          -> <<"IsAuthenticated">>
      [] view = "MedicalRecordListCreateView"      ->
             <<"IsAuthenticated", "IsDoctorOrReadOnly">>
      [] view = "MedicalRecordRetrieveUpdateDestroyView" ->
             <<"IsAuthenticated", "IsDoctorOrReadOnly">>
      [] view = "DoctorProfileView"                -> <<"IsAuthenticated">>
      [] view = "PatientProfileView"               -> <<"IsAuthenticated">>

\* The model class a view's queryset and serializer work on.
resource(view) ==
    CASE view \in {"DoctorListCreateView", "DoctorRetrieveUpdateDestroyView",
                   "AvailableDoctorsView", "DoctorProfileView"} -> "Doctor"
      [] view \in {"PatientListCreateView", "PatientRetrieveUpdateDestroyView",
                   "PatientMedicalHistoryView", "PatientProfileView"} -> "Patient"
      [] view \in {"DoctorAppointmentScheduleView",
                   "AppointmentReminderView"} -> "Appointment"
      [] view \in {"MedicalRecordListCreateView",
                   "MedicalRecordRetrieveUpdateDestroyView"} -> "MedicalRecord"

\* The generic view classes rest_framework.generics has.
generics ==
    {"GenericAPIView", "CreateAPIView", "ListAPIView", "RetrieveAPIView",
     "DestroyAPIView", "UpdateAPIView", "ListCreateAPIView",
     "RetrieveUpdateAPIView", "RetrieveDestroyAPIView",
     "RetrieveUpdateDestroyAPIView"}

\* The base class each class statement names.
base(view) ==
    CASE view \in {"DoctorListCreateView", "PatientListCreateView",
                   "AvailableDoctorsView", "MedicalRecordListCreateView"} ->
             "ListCreateAPIView"
      [] view \in {"DoctorRetrieveUpdateDestroyView",
                   "PatientRetrieveUpdateDestroyView",
                   "MedicalRecordRetrieveUpdateDestroyView"} ->
             "RetrieveUpdateDestroyAPIView"
      [] view \in {"DoctorProfileView", "PatientProfileView"} ->
             "RetrieveUpdateAPIView"
      [] view = "DoctorAppointmentScheduleView" -> "ListUpdateAPIView"
      [] view = "PatientMedicalHistoryView"     -> "RetrieveAPIView"
      [] view = "AppointmentReminderView"       -> "CreateAPIView"

\* The handlers a generic view class defines.
handlers(class) ==
    CASE class = "ListCreateAPIView"            -> {"GET", "POST"}
      [] class = "RetrieveUpdateDestroyAPIView" ->
             {"GET", "PUT", "PATCH", "DELETE"}
      [] class = "RetrieveUpdateAPIView"        -> {"GET", "PUT", "PATCH"}
      [] class = "RetrieveAPIView"              -> {"GET"}
      [] class = "CreateAPIView"                -> {"POST"}
      [] OTHER                                  -> {}

\* The methods the class statement of a view gives it a handler for: those
\* of its base class, head where there is get (django View.setup) and
\* options (APIView.options); none when the base class does not exist.
declared_methods(view) ==
    IF base(view) \notin generics THEN {}
    ELSE handlers(base(view))
             \cup (IF "GET" \in handlers(base(view)) THEN {"HEAD"} ELSE {})
             \cup {"OPTIONS"}

\* `from .views import (...)` of urls.py executes views.py from top to
\* bottom: a class statement whose base class does not exist raises
\* AttributeError, and the import fails with it.
views_import ==
    IF \A view \in Views : base(view) \in generics THEN "ok"
    ELSE "AttributeError"

\* The methods a view answers.
methods(view) == IF views_import = "ok" THEN declared_methods(view) ELSE {}

\* The views that answer requests.
Served == {view \in Views : methods(view) # {}}

\* The views whose base class lists the rows on GET (ListCreateAPIView).
ListViews ==
    {"DoctorListCreateView", "PatientListCreateView", "AvailableDoctorsView",
     "MedicalRecordListCreateView"}

\* The views that look one row up (get_object) and whose route carries the
\* pk to look it up by.
DetailViews ==
    {"DoctorRetrieveUpdateDestroyView", "PatientRetrieveUpdateDestroyView",
     "MedicalRecordRetrieveUpdateDestroyView", "DoctorProfileView",
     "PatientProfileView"}

\* APIView.check_permissions: the classes are asked in order and the first
\* that does not allow decides.
RECURSIVE CheckFrom(_, _, _, _)
CheckFrom(classes, i, method, u) ==
    IF i > Len(classes) THEN "allow"
    ELSE IF HasPermission(classes[i], method, u) # "allow"
         THEN HasPermission(classes[i], method, u)
         ELSE CheckFrom(classes, i + 1, method, u)

check_permissions(view, method, u) ==
    CheckFrom(permission_classes(view), 1, method, u)


(***************************************************************************)
(* models.py: the rows.  A Doctor or Patient row belongs to one User       *)
(* (OneToOneField user, read-only in the serializers and never reassigned);*)
(* neither Doctor.save nor Patient.save looks at that user's role, so a    *)
(* profile of either kind can belong to a user of any role.  Profile d2 is *)
(* a Doctor row of a user whose role is patient, p2 a Patient row of a     *)
(* user whose role is doctor.                                              *)
(***************************************************************************)
DoctorIds == {"d1", "d2"}

PatientIds == {"p1", "p2"}

doctor_user(d) == IF d = "d1" THEN "doc" ELSE "pat"

patient_user(p) == IF p = "p1" THEN "pat" ELSE "doc"

\* Appointment.STATUS_CHOICES and the default of Appointment.status.
STATUS_CHOICES == {"scheduled", "completed", "canceled"}

status_default == "scheduled"

ApptIds == 1..MaxAppts

RecordIds == 1..MaxRecords

\* Values of timezone.now() and of the times a request can carry.
Clock == 0..MaxTime

Times == 0..MaxTime

VARIABLES
    doctors,        \* the Doctor rows, by id (a function on the ids in use)
    patients,       \* the Patient rows, by id
    appointments,   \* the Appointment rows, by id
    records,        \* the MedicalRecord rows, by id
    clock,          \* timezone.now()
    outbox,         \* the reminders handed to send_mail, in order
    last            \* the latest operation and how it ended

vars == <<doctors, patients, appointments, records, clock, outbox, last>>

entities == <<doctors, patients, appointments, records>>

NoData == [none |-> TRUE]

\* A table with row `id` written, and with the rows `ids` deleted.
Put(table, id, row) ==
    [i \in DOMAIN table \cup {id} |-> IF i = id THEN row ELSE table[i]]

Without(table, ids) == [i \in DOMAIN table \ ids |-> table[i]]

\* What `last` holds: the operation, the request (view, method, actor), the
\* rows addressed (a set of ids: none, or one), the permission decision and
\* the errors raised (none: the operation succeeded).  Every step sets it, so
\* it always describes the step that led to the current state.
Outcome(op, view, method, actor, target, decision, errors) ==
    [op |-> op, view |-> view, method |-> method, actor |-> actor,
     target |-> target, decision |-> decision, errors |-> errors]

\* The decision of a request that reaches no permission class.
NoDecision == "none"

\* An operation that was not let through: the handler is not run.  A
\* permission class that raised ends the request with its error, and so
\* does the import of views.py.
Refused(op, view, method, actor, decision) ==
    Outcome(op, view, method, actor, {}, decision,
            IF decision \in {"error", NoDecision} THEN {"AttributeError"}
            ELSE {})

\* A direct use of a model or a serializer passes no view and no permission
\* class.
Direct == "direct"

\* What lets a request through to the handler: the URLconf has to import
\* views.py, then the view's permission classes are asked.
Gate(view, method, actor) ==
    IF view = Direct THEN "allow"
    ELSE IF views_import # "ok" THEN NoDecision
    ELSE check_permissions(view, method, actor)

Succeeded(l) == l.decision = "allow" /\ l.errors = {}

(***************************************************************************)
(* serializers.py, AppointmentSerializer.                                  *)
(* Field validation runs over every field and collects the errors; only    *)
(* when there is none does validate(attrs) run.  A request field that is   *)
(* not sent is Absent.                                                     *)
(***************************************************************************)
validate_appointment_time(value, now) ==
    IF value < now THEN {"InvalidTime"} ELSE {}

\* PrimaryKeyRelatedField(queryset=Patient.objects.all()) of a ModelSerializer.
patient_field(value, partial) ==
    IF value = Absent THEN (IF partial THEN {} ELSE {"PatientRequired"})
    ELSE IF value \notin DOMAIN patients THEN {"PatientNotFound"} ELSE {}

doctor_field(value, partial) ==
    IF value = Absent THEN (IF partial THEN {} ELSE {"DoctorRequired"})
    ELSE IF value \notin DOMAIN doctors THEN {"DoctorNotFound"} ELSE {}

appointment_time_field(value, partial, now) ==
    IF value = NoTime THEN (IF partial THEN {} ELSE {"TimeRequired"})
    ELSE validate_appointment_time(value, now)

AppointmentSerializer_fields(data, partial, now) ==
    patient_field(data.patient, partial)
        \cup doctor_field(data.doctor, partial)
        \cup appointment_time_field(data.appointment_time, partial, now)

\* validate(attrs) checking the doctor before the patient.
AppointmentSerializer_validate_DoctorFirst(attrs) ==
    IF attrs.doctor = Absent THEN {"KeyError"}
    ELSE IF role(doctor_user(attrs.doctor)) # "doctor" THEN {"DoctorRole"}
    ELSE IF attrs.patient = Absent THEN {"KeyError"}
    ELSE IF role(patient_user(attrs.patient)) # "patient" THEN {"PatientRole"}
    ELSE {}

\* validate(attrs): attrs['patient'] and attrs['doctor'] raise KeyError when
\* a partial update did not send the field.
AppointmentSerializer_validate(attrs) ==
    IF attrs.patient = Absent THEN {"KeyError"}
    ELSE IF role(patient_user(attrs.patient)) # "patient" THEN {"PatientRole"}
    ELSE IF attrs.doctor = Absent THEN {"KeyError"}
    ELSE IF role(doctor_user(attrs.doctor)) # "doctor" THEN {"DoctorRole"}
    ELSE {}

AppointmentSerializer_is_valid(data, partial, now) ==
    IF AppointmentSerializer_fields(data, partial, now) # {}
    THEN AppointmentSerializer_fields(data, partial, now)
    ELSE AppointmentSerializer_validate(data)

(***************************************************************************)
(* models.py, Appointment.save: the checks, in order, then the row is      *)
(* written.  Reading self.doctor of a row that has no doctor raises        *)
(* RelatedObjectDoesNotExist.                                              *)
(***************************************************************************)
\* Appointment.save without its check of the patient's role.
Appointment_checks_NoPatientRole(row, now) ==
    IF row.appointment_time < now THEN {"InvalidTime"}
    ELSE IF row.doctor = Absent THEN {"RelatedObjectDoesNotExist"}
    ELSE IF role(doctor_user(row.doctor)) # "doctor" THEN {"DoctorRole"}
    ELSE {}

\* Appointment.save without its check of the time.
Appointment_checks_NoTime(row, now) ==
    IF role(patient_user(row.patient)) # "patient" THEN {"PatientRole"}
    ELSE IF row.doctor = Absent THEN {"RelatedObjectDoesNotExist"}
    ELSE IF role(doctor_user(row.doctor)) # "doctor" THEN {"DoctorRole"}
    ELSE {}

Appointment_checks(row, now) ==
    IF row.appointment_time < now THEN {"InvalidTime"}
    ELSE IF role(patient_user(row.patient)) # "patient" THEN {"PatientRole"}
    ELSE IF row.doctor = Absent THEN {"RelatedObjectDoesNotExist"}
    ELSE IF role(doctor_user(row.doctor)) # "doctor" THEN {"DoctorRole"}
    ELSE {}

\* modified_at = DateTimeField(auto_now=True): super().save() sets it to
\* timezone.now(), read as the row is written.  (created_at, auto_now_add,
\* is set by the insert alone and no operation reads or rewrites it; the
\* rows here do not carry it.)
Stamped(row, stamp) == [row EXCEPT !.modified_at = stamp]

\* Appointment.save writing the row before it checks it.
Appointment_save_Unchecked(table, id, row, now, stamp) ==
    Put(table, id, Stamped(row, stamp))

\* The table of appointments after save() of `row` as row `id`: the checks
\* read the clock as `now`, super().save() writes the row and reads it as
\* `stamp`.
Appointment_save(table, id, row, now, stamp) ==
    IF Appointment_checks(row, now) = {} THEN Put(table, id, Stamped(row, stamp))
    ELSE table

\* The row a create builds: the fields sent, status defaulting to scheduled.
NewAppointment(data) ==
    [patient |-> data.patient, doctor |-> data.doctor,
     appointment_time |-> data.appointment_time,
     status |-> IF data.status = Absent THEN status_default ELSE data.status,
     modified_at |-> NoTime]

\* An update that moves the stored time by the time sent.
ChangedAppointment_Relative(row, data) ==
    [patient |-> IF data.patient = Absent THEN row.patient ELSE data.patient,
     doctor |-> IF data.doctor = Absent THEN row.doctor ELSE data.doctor,
     appointment_time |-> IF data.appointment_time = NoTime
                          THEN row.appointment_time
                          ELSE row.appointment_time + data.appointment_time,
     status |-> IF data.status = Absent THEN row.status ELSE data.status,
     modified_at |-> row.modified_at]

\* The row an update saves: the stored row with each sent field replaced.
ChangedAppointment(row, data) ==
    [patient |-> IF data.patient = Absent THEN row.patient ELSE data.patient,
     doctor |-> IF data.doctor = Absent THEN row.doctor ELSE data.doctor,
     appointment_time |-> IF data.appointment_time = NoTime
                          THEN row.appointment_time ELSE data.appointment_time,
     status |-> IF data.status = Absent THEN row.status ELSE data.status,
     modified_at |-> row.modified_at]

FreeApptIds == ApptIds \ DOMAIN appointments

NextApptId == CHOOSE i \in FreeApptIds : \A j \in FreeApptIds : i <= j

AppointmentData ==
    [patient : PatientIds \cup {Absent}, doctor : DoctorIds \cup {Absent},
     appointment_time : Times \cup {NoTime},
     status : STATUS_CHOICES \cup {Absent}]


(***************************************************************************)
(* serializers.py, AppointmentReminderSerializer (fields id, read-only,    *)
(* appointment_time and patient) and utils.py, send_email_reminder.        *)
(***************************************************************************)
AppointmentReminderSerializer_validate(attrs, now) ==
    IF attrs.appointment_time <= now THEN {"InvalidTime"} ELSE {}

AppointmentReminderSerializer_is_valid(data, now) ==
    IF patient_field(data.patient, FALSE) # {}
    THEN patient_field(data.patient, FALSE)
    ELSE AppointmentReminderSerializer_validate(data, now)

\* serializer.save() of the reminder view: ModelSerializer.create builds a
\* new Appointment from the validated fields, which name no doctor.
ReminderAppointment(data) ==
    [patient |-> data.patient, doctor |-> Absent,
     appointment_time |-> data.appointment_time, status |-> status_default,
     modified_at |-> NoTime]

patient_email(p) == <<"email", p>>

\* send_mail(..., fail_silently=False): one attempt; `delivery` is what the
\* mail backend does with it.
send_email_reminder(row, delivery) ==
    [mails  |-> IF delivery = "ok"
                THEN <<[to |-> patient_email(row.patient),
                        time |-> row.appointment_time]>>
                ELSE <<>>,
     errors |-> IF delivery = "ok" THEN {} ELSE {"NotificationError"}]

(***************************************************************************)
(* serializers.py, DoctorSerializer and models.py, Doctor.save.            *)
(* `user` is read-only in the serializer: a Doctor created through it has  *)
(* no user, and the insert fails on the NOT NULL user_id (IntegrityError). *)
(* The opaque fields (availability, contact_number) are left out.          *)
(***************************************************************************)
DoctorData ==
    [specialization : {Absent, "", "cardiology"},
     experience_years : {NoNumber, 0 - 1, 0, 1}]

validate_specialization(value) ==
    IF value = "" THEN {"EmptySpecialization"} ELSE {}

validate_experience_years(value) ==
    IF value < 0 THEN {"NegativeExperience"} ELSE {}

DoctorSerializer_is_valid(data, partial) ==
    (IF data.specialization = Absent
     THEN (IF partial THEN {} ELSE {"SpecializationRequired"})
     ELSE validate_specialization(data.specialization))
    \cup (IF data.experience_years = NoNumber THEN {}
          ELSE validate_experience_years(data.experience_years))

Doctor_checks(row) ==
    IF row.specialization = "" THEN {"EmptySpecialization"}
    ELSE IF row.experience_years < 0 THEN {"NegativeExperience"}
    ELSE {}

Doctor_save(table, id, row) ==
    IF Doctor_checks(row) = {} THEN Put(table, id, row) ELSE table

NewDoctor(data) ==
    [specialization |-> IF data.specialization = Absent THEN ""
                        ELSE data.specialization,
     experience_years |-> IF data.experience_years = NoNumber THEN 0
                          ELSE data.experience_years]

ChangedDoctor(row, data) ==
    [specialization |-> IF data.specialization = Absent THEN row.specialization
                        ELSE data.specialization,
     experience_years |-> IF data.experience_years = NoNumber
                          THEN row.experience_years ELSE data.experience_years]

(***************************************************************************)
(* serializers.py, PatientSerializer and models.py, Patient.save.          *)
(* validate_date_of_birth compares the value with today's date: a null     *)
(* date raises TypeError.  Dates are counted on the clock's scale.         *)
(***************************************************************************)
PatientData == [date_of_birth : {NoTime, NullDate} \cup Times]

validate_date_of_birth(value, today) ==
    IF value = NullDate THEN {"TypeError"}
    ELSE IF value > today THEN {"FutureBirth"} ELSE {}

PatientSerializer_is_valid(data, today) ==
    IF data.date_of_birth = NoTime THEN {}
    ELSE validate_date_of_birth(data.date_of_birth, today)

Patient_checks(row, today) ==
    IF row.date_of_birth # NullDate /\ row.date_of_birth > today
    THEN {"FutureBirth"} ELSE {}

Patient_save(table, id, row, today) ==
    IF Patient_checks(row, today) = {} THEN Put(table, id, row) ELSE table

NewPatient(data) ==
    [date_of_birth |-> IF data.date_of_birth = NoTime THEN NullDate
                       ELSE data.date_of_birth]

ChangedPatient(row, data) ==
    [date_of_birth |-> IF data.date_of_birth = NoTime THEN row.date_of_birth
                       ELSE data.date_of_birth]

(***************************************************************************)
(* serializers.py, MedicalRecordSerializer and models.py,                  *)
(* MedicalRecord.save.  Neither looks at the roles of the two profiles.    *)
(***************************************************************************)
RecordData ==
    [patient : PatientIds \cup {Absent}, doctor : DoctorIds \cup {Absent},
     notes : {Absent, "", "note"}]

validate_notes(value) == IF value = "" THEN {"EmptyNotes"} ELSE {}

MedicalRecordSerializer_is_valid(data, partial) ==
    patient_field(data.patient, partial)
        \cup doctor_field(data.doctor, partial)
        \cup (IF data.notes = Absent
              THEN (IF partial THEN {} ELSE {"NotesRequired"})
              ELSE validate_notes(data.notes))

MedicalRecord_checks(row) ==
    IF row.notes = "" THEN {"EmptyNotes"} ELSE {}

MedicalRecord_save(table, id, row) ==
    IF MedicalRecord_checks(row) = {} THEN Put(table, id, row) ELSE table

NewRecord(data) ==
    [patient |-> data.patient, doctor |-> data.doctor,
     notes |-> IF data.notes = Absent THEN "" ELSE data.notes]

ChangedRecord(row, data) ==
    [patient |-> IF data.patient = Absent THEN row.patient ELSE data.patient,
     doctor |-> IF data.doctor = Absent THEN row.doctor ELSE data.doctor,
     notes |-> IF data.notes = Absent THEN row.notes ELSE data.notes]

FreeRecordIds == RecordIds \ DOMAIN records

NextRecordId == CHOOSE i \in FreeRecordIds : \A j \in FreeRecordIds : i <= j

(***************************************************************************)
(* models.py, the on_delete rules of the foreign keys: MedicalRecord       *)
(* protects the profiles it references, Appointment rows are deleted with  *)
(* theirs.                                                                 *)
(***************************************************************************)
\* The foreign keys of MedicalRecord without PROTECT.
ProtectingRecords_None(field, id) == {}

\* on_delete=models.PROTECT: the records that keep a profile from deletion.
ProtectingRecords(field, id) ==
    {r \in DOMAIN records : records[r][field] = id}

\* The foreign keys of Appointment without CASCADE.
CascadedAppointments_None(field, id) == {}

\* on_delete=models.CASCADE: the appointments deleted with a profile.
CascadedAppointments(field, id) ==
    {a \in DOMAIN appointments : appointments[a][field] = id}

\* Model.delete() of the profile `id` of `table`, held in `field` of the
\* rows that reference it.
Profile_delete_errors(table, field, id) ==
    IF id \notin DOMAIN table THEN {"NotFound"}
    ELSE IF ProtectingRecords(field, id) # {} THEN {"ProtectedError"}
    ELSE {}

Profile_delete_table(table, field, id) ==
    IF Profile_delete_errors(table, field, id) = {} THEN Without(table, {id})
    ELSE table

Profile_delete_appointments(table, field, id) ==
    IF Profile_delete_errors(table, field, id) = {}
    THEN Without(appointments, CascadedAppointments(field, id))
    ELSE appointments

(***************************************************************************)
(* The operations on appointments: for each, the errors it ends with (none:*)
(* it succeeds) and the table of appointments it leaves.                   *)
(***************************************************************************)
\* timezone.now() is read once in the serializer's validation and once more
\* in Appointment.save(): the second reading is the first or, the clock
\* having moved on meanwhile, any later instant.
LaterReads(now) == {t \in Clock : now <= t}

\* AppointmentSerializer(data=...).is_valid() at the clock and save() at
\* `later`, or a direct Appointment(...).save() (`via`), whose checks are the
\* first to read the time (later = clock); the row is written at `stamp`.
\* No view of views.py routes to it.
CreateAppointment_errors(via, data, later) ==
    IF via = "serializer" /\ AppointmentSerializer_is_valid(data, FALSE, clock) # {}
    THEN AppointmentSerializer_is_valid(data, FALSE, clock)
    ELSE Appointment_checks(NewAppointment(data), later)

CreateAppointment_table(via, data, later, stamp) ==
    IF via = "serializer" /\ AppointmentSerializer_is_valid(data, FALSE, clock) # {}
    THEN appointments
    ELSE Appointment_save(appointments, NextApptId, NewAppointment(data),
                          later, stamp)

\* AppointmentSerializer(instance, data=..., partial=...).is_valid() at the
\* clock and save() at `later`, or a direct change of fields followed by
\* save() (`via`), whose checks are the first to read the time (later =
\* clock); the row is written at `stamp`.  No view of views.py routes to it.
UpdateAppointment_errors(via, partial, id, data, later) ==
    IF via = "serializer" /\ AppointmentSerializer_is_valid(data, partial, clock) # {}
    THEN AppointmentSerializer_is_valid(data, partial, clock)
    ELSE Appointment_checks(ChangedAppointment(appointments[id], data), later)

\* An update that writes the changed row without Appointment.save's checks
\* (as QuerySet.update() would).
UpdateAppointment_apply_Unchecked(table, now, later, stamp, via, partial, id, data) ==
    IF via = "serializer" /\ AppointmentSerializer_is_valid(data, partial, now) # {}
    THEN table
    ELSE Put(table, id, Stamped(ChangedAppointment(table[id], data), stamp))

\* The update applied to `table`: validation at `now`, the checks of save()
\* at `later`, the row written at `stamp`.
UpdateAppointment_apply(table, now, later, stamp, via, partial, id, data) ==
    IF via = "serializer" /\ AppointmentSerializer_is_valid(data, partial, now) # {}
    THEN table
    ELSE Appointment_save(table, id, ChangedAppointment(table[id], data),
                          later, stamp)

UpdateAppointment_table(via, partial, id, data, later, stamp) ==
    UpdateAppointment_apply(appointments, clock, later, stamp, via, partial,
                            id, data)

\* POST on AppointmentReminderView (views.py, create): is_valid at the
\* clock, save at `later` (the row written at `stamp`), then
\* send_email_reminder.
RequestReminder_errors(data, delivery, later) ==
    IF AppointmentReminderSerializer_is_valid(data, clock) # {}
    THEN AppointmentReminderSerializer_is_valid(data, clock)
    ELSE IF Appointment_checks(ReminderAppointment(data), later) # {}
    THEN Appointment_checks(ReminderAppointment(data), later)
    ELSE send_email_reminder(ReminderAppointment(data), delivery).errors

RequestReminder_table(data, later, stamp) ==
    IF AppointmentReminderSerializer_is_valid(data, clock) # {}
    THEN appointments
    ELSE Appointment_save(appointments, NextApptId, ReminderAppointment(data),
                          later, stamp)

RequestReminder_mails(data, delivery, later) ==
    IF AppointmentReminderSerializer_is_valid(data, clock) # {}
       \/ Appointment_checks(ReminderAppointment(data), later) # {}
    THEN <<>>
    ELSE send_email_reminder(ReminderAppointment(data), delivery).mails

\* The request a client sends to be reminded of appointment `id`: its id
\* (a read-only field, which the serializer ignores), time and patient.
ReminderData(id) ==
    [patient |-> appointments[id].patient,
     appointment_time |-> appointments[id].appointment_time]

(***************************************************************************)
(* The operations on profiles and records.  `view` is the view the request *)
(* goes through, or Direct for a direct use of the model.                  *)
(***************************************************************************)
\* POST on DoctorListCreateView or AvailableDoctorsView, or Doctor(user=...,
\* ...).save().
CreateDoctor_errors(view, data) ==
    IF view # Direct /\ DoctorSerializer_is_valid(data, FALSE) # {}
    THEN DoctorSerializer_is_valid(data, FALSE)
    ELSE IF Doctor_checks(NewDoctor(data)) # {}
    THEN Doctor_checks(NewDoctor(data))
    ELSE IF view # Direct THEN {"IntegrityError"} ELSE {}

CreateDoctor_table(view, id, data) ==
    IF CreateDoctor_errors(view, data) = {}
    THEN Doctor_save(doctors, id, NewDoctor(data)) ELSE doctors

\* PUT or PATCH on DoctorRetrieveUpdateDestroyView or DoctorProfileView, or
\* a direct change of fields followed by save().
UpdateDoctor_errors(view, method, id, data) ==
    IF id \notin DOMAIN doctors THEN {"NotFound"}
    ELSE IF view # Direct /\ DoctorSerializer_is_valid(data, method = "PATCH") # {}
    THEN DoctorSerializer_is_valid(data, method = "PATCH")
    ELSE Doctor_checks(ChangedDoctor(doctors[id], data))

UpdateDoctor_table(view, method, id, data) ==
    IF id \notin DOMAIN doctors THEN doctors
    ELSE IF view # Direct /\ DoctorSerializer_is_valid(data, method = "PATCH") # {}
    THEN doctors
    ELSE Doctor_save(doctors, id, ChangedDoctor(doctors[id], data))

\* POST on PatientListCreateView, or Patient(user=..., ...).save().
CreatePatient_errors(view, data) ==
    IF view # Direct /\ PatientSerializer_is_valid(data, clock) # {}
    THEN PatientSerializer_is_valid(data, clock)
    ELSE IF Patient_checks(NewPatient(data), clock) # {}
    THEN Patient_checks(NewPatient(data), clock)
    ELSE IF view # Direct THEN {"IntegrityError"} ELSE {}

CreatePatient_table(view, id, data) ==
    IF CreatePatient_errors(view, data) = {}
    THEN Patient_save(patients, id, NewPatient(data), clock) ELSE patients

\* PUT or PATCH on PatientRetrieveUpdateDestroyView or PatientProfileView,
\* or a direct change of fields followed by save().
UpdatePatient_errors(view, id, data) ==
    IF id \notin DOMAIN patients THEN {"NotFound"}
    ELSE IF view # Direct /\ PatientSerializer_is_valid(data, clock) # {}
    THEN PatientSerializer_is_valid(data, clock)
    ELSE Patient_checks(ChangedPatient(patients[id], data), clock)

UpdatePatient_table(view, id, data) ==
    IF id \notin DOMAIN patients THEN patients
    ELSE IF view # Direct /\ PatientSerializer_is_valid(data, clock) # {}
    THEN patients
    ELSE Patient_save(patients, id, ChangedPatient(patients[id], data), clock)

\* POST on MedicalRecordListCreateView, or MedicalRecord(...).save().
CreateRecord_errors(view, data) ==
    IF view # Direct /\ MedicalRecordSerializer_is_valid(data, FALSE) # {}
    THEN MedicalRecordSerializer_is_valid(data, FALSE)
    ELSE MedicalRecord_checks(NewRecord(data))

CreateRecord_table(view, data) ==
    IF view # Direct /\ MedicalRecordSerializer_is_valid(data, FALSE) # {}
    THEN records
    ELSE MedicalRecord_save(records, NextRecordId, NewRecord(data))

\* PUT or PATCH on MedicalRecordRetrieveUpdateDestroyView.
UpdateRecord_errors(method, id, data) ==
    IF id \notin DOMAIN records THEN {"NotFound"}
    ELSE IF MedicalRecordSerializer_is_valid(data, method = "PATCH") # {}
    THEN MedicalRecordSerializer_is_valid(data, method = "PATCH")
    ELSE MedicalRecord_checks(ChangedRecord(records[id], data))

UpdateRecord_table(method, id, data) ==
    IF id \notin DOMAIN records THEN records
    ELSE IF MedicalRecordSerializer_is_valid(data, method = "PATCH") # {}
    THEN records
    ELSE MedicalRecord_save(records, id, ChangedRecord(records[id], data))

\* DELETE on MedicalRecordRetrieveUpdateDestroyView: nothing references a
\* record.
DeleteRecord_errors(id) ==
    IF id \notin DOMAIN records THEN {"NotFound"} ELSE {}

DeleteRecord_table(id) == Without(records, {id})

\* What a request leaves in `last`: not let through, or handled with
\* `errors`.
Handled(op, view, method, u, target, errors) ==
    IF Gate(view, method, u) # "allow"
    THEN Refused(op, view, method, u, Gate(view, method, u))
    ELSE Outcome(op, view, method, u, target, "allow", errors)

\* What a request leaves of a table: `after` if the handler ran.
Written(view, method, u, before, after) ==
    IF Gate(view, method, u) # "allow" THEN before ELSE after

\* A request through a view has an actor, a direct use of a model has none.
Addressed(view, u) == (view = Direct) <=> (u = Absent)

(***************************************************************************)
(* The actions.                                                            *)
(***************************************************************************)
\* A creation.  Time passes up to the reading of the clock by the checks of
\* save() and again up to its reading as the row is written; a save() that
\* raises writes no row and reads the clock no more.
CreateAppointment(datas) ==
    \E via \in {"serializer", "model"}, data \in datas,
       later \in LaterReads(clock) :
        \E stamp \in LaterReads(later) :
            /\ FreeApptIds # {}
            /\ via = "model" =>
                   /\ data.patient \in DOMAIN patients
                   /\ data.doctor \in DOMAIN doctors
                   /\ data.appointment_time # NoTime
            /\ (via = "model"
                \/ AppointmentSerializer_is_valid(data, FALSE, clock) # {})
                   => later = clock
            /\ CreateAppointment_errors(via, data, later) # {} => stamp = later
            /\ appointments' = CreateAppointment_table(via, data, later, stamp)
            /\ clock' = stamp
            /\ last' = Outcome("CreateAppointment", via, "POST", Absent,
                               {NextApptId}, "allow",
                               CreateAppointment_errors(via, data, later))
            /\ UNCHANGED <<doctors, patients, records, outbox>>

\* An update of a stored appointment.
UpdateAppointment(datas) ==
    \E via \in {"serializer", "model"}, partial \in BOOLEAN,
       id \in DOMAIN appointments, data \in datas,
       later \in LaterReads(clock) :
        \E stamp \in LaterReads(later) :
            /\ via = "model" => partial
            /\ (via = "model"
                \/ AppointmentSerializer_is_valid(data, partial, clock) # {})
                   => later = clock
            /\ UpdateAppointment_errors(via, partial, id, data, later) # {}
                   => stamp = later
            /\ appointments' = UpdateAppointment_table(via, partial, id, data,
                                                       later, stamp)
            /\ clock' = stamp
            /\ last' = Outcome("UpdateAppointment", via, Absent, Absent, {id},
                               "allow",
                               UpdateAppointment_errors(via, partial, id, data,
                                                        later))
            /\ UNCHANGED <<doctors, patients, records, outbox>>

\* A reminder is requested for an existing appointment, or with a time and
\* a patient that need not be those of any.
RequestReminder(actors, datas) ==
    \E u \in actors \ {Absent}, delivery \in {"ok", "fail"},
       target \in {{i} : i \in DOMAIN appointments} \cup {{}},
       later \in LaterReads(clock) :
        \E data \in IF target = {} THEN datas
                    ELSE {ReminderData(i) : i \in target},
           stamp \in LaterReads(later) :
            /\ IF Gate("AppointmentReminderView", "POST", u) # "allow"
               THEN /\ later = clock /\ stamp = clock
                    /\ last' = Refused("RequestReminder",
                                       "AppointmentReminderView", "POST", u,
                                       Gate("AppointmentReminderView", "POST", u))
                    /\ UNCHANGED <<appointments, outbox>>
               ELSE /\ AppointmentReminderSerializer_is_valid(data, clock) # {}
                           => later = clock
                    /\ (AppointmentReminderSerializer_is_valid(data, clock) # {}
                        \/ Appointment_checks(ReminderAppointment(data), later)
                               # {}) => stamp = later
                    /\ RequestReminder_errors(data, delivery, later) \in
                           {{}, {"NotificationError"}} => FreeApptIds # {}
                    /\ appointments' = RequestReminder_table(data, later, stamp)
                    /\ outbox' = outbox
                                   \o RequestReminder_mails(data, delivery, later)
                    /\ last' = Outcome("RequestReminder",
                                       "AppointmentReminderView", "POST", u,
                                       target, "allow",
                                       RequestReminder_errors(data, delivery,
                                                              later))
            /\ clock' = stamp
            /\ UNCHANGED <<doctors, patients, records>>

CreateDoctor(actors, datas) ==
    \E view \in {"DoctorListCreateView", "AvailableDoctorsView", Direct},
       u \in actors, data \in datas,
       id \in (DoctorIds \ DOMAIN doctors) \cup {Absent} :
        /\ Addressed(view, u)
        /\ (view = Direct) <=> (id # Absent)
        /\ doctors' = Written(view, "POST", u, doctors,
                              CreateDoctor_table(view, id, data))
        /\ last' = Handled("CreateDoctor", view, "POST", u,
                           IF view = Direct THEN {id} ELSE {},
                           CreateDoctor_errors(view, data))
        /\ UNCHANGED <<patients, appointments, records, clock, outbox>>

UpdateDoctor(actors, ids, datas) ==
    \E view \in {"DoctorRetrieveUpdateDestroyView", "DoctorProfileView", Direct},
       u \in actors, method \in {"PUT", "PATCH"}, id \in ids,
       data \in datas :
        /\ Addressed(view, u)
        /\ view = Direct => method = "PATCH" /\ id \in DOMAIN doctors
        /\ doctors' = Written(view, method, u, doctors,
                              UpdateDoctor_table(view, method, id, data))
        /\ last' = Handled("UpdateDoctor", view, method, u, {id},
                           UpdateDoctor_errors(view, method, id, data))
        /\ UNCHANGED <<patients, appointments, records, clock, outbox>>

\* DELETE on DoctorRetrieveUpdateDestroyView, or Doctor.delete().
DeleteDoctor(actors, ids) ==
    \E view \in {"DoctorRetrieveUpdateDestroyView", Direct}, u \in actors,
       id \in ids :
        /\ Addressed(view, u)
        /\ view = Direct => id \in DOMAIN doctors
        /\ doctors' = Written(view, "DELETE", u, doctors,
                              Profile_delete_table(doctors, "doctor", id))
        /\ appointments' =
               Written(view, "DELETE", u, appointments,
                       Profile_delete_appointments(doctors, "doctor", id))
        /\ last' = Handled("DeleteProfile", view, "DELETE", u, {id},
                           Profile_delete_errors(doctors, "doctor", id))
        /\ UNCHANGED <<patients, records, clock, outbox>>

CreatePatient(actors, datas) ==
    \E view \in {"PatientListCreateView", Direct}, u \in actors,
       data \in datas, id \in (PatientIds \ DOMAIN patients) \cup {Absent} :
        /\ Addressed(view, u)
        /\ (view = Direct) <=> (id # Absent)
        /\ patients' = Written(view, "POST", u, patients,
                               CreatePatient_table(view, id, data))
        /\ last' = Handled("CreatePatient", view, "POST", u,
                           IF view = Direct THEN {id} ELSE {},
                           CreatePatient_errors(view, data))
        /\ UNCHANGED <<doctors, appointments, records, clock, outbox>>

UpdatePatient(actors, ids, datas) ==
    \E view \in {"PatientRetrieveUpdateDestroyView", "PatientProfileView",
                 Direct},
       u \in actors, method \in {"PUT", "PATCH"}, id \in ids,
       data \in datas :
        /\ Addressed(view, u)
        /\ view = Direct => method = "PATCH" /\ id \in DOMAIN patients
        /\ patients' = Written(view, method, u, patients,
                               UpdatePatient_table(view, id, data))
        /\ last' = Handled("UpdatePatient", view, method, u, {id},
                           UpdatePatient_errors(view, id, data))
        /\ UNCHANGED <<doctors, appointments, records, clock, outbox>>

\* DELETE on PatientRetrieveUpdateDestroyView, or Patient.delete().
DeletePatient(actors, ids) ==
    \E view \in {"PatientRetrieveUpdateDestroyView", Direct}, u \in actors,
       id \in ids :
        /\ Addressed(view, u)
        /\ view = Direct => id \in DOMAIN patients
        /\ patients' = Written(view, "DELETE", u, patients,
                               Profile_delete_table(patients, "patient", id))
        /\ appointments' =
               Written(view, "DELETE", u, appointments,
                       Profile_delete_appointments(patients, "patient", id))
        /\ last' = Handled("DeleteProfile", view, "DELETE", u, {id},
                           Profile_delete_errors(patients, "patient", id))
        /\ UNCHANGED <<doctors, records, clock, outbox>>

CreateRecord(actors, datas) ==
    \E view \in {"MedicalRecordListCreateView", Direct}, u \in actors,
       data \in datas :
        /\ Addressed(view, u)
        /\ FreeRecordIds # {}
        /\ view = Direct => /\ data.patient \in DOMAIN patients
                            /\ data.doctor \in DOMAIN doctors
        /\ records' = Written(view, "POST", u, records,
                              CreateRecord_table(view, data))
        /\ last' = Handled("CreateRecord", view, "POST", u, {NextRecordId},
                           CreateRecord_errors(view, data))
        /\ UNCHANGED <<doctors, patients, appointments, clock, outbox>>

UpdateRecord(actors, datas) ==
    \E u \in actors \ {Absent}, method \in {"PUT", "PATCH"}, id \in RecordIds,
       data \in datas :
        LET view == "MedicalRecordRetrieveUpdateDestroyView"
        IN /\ records' = Written(view, method, u, records,
                                 UpdateRecord_table(method, id, data))
           /\ last' = Handled("UpdateRecord", view, method, u, {id},
                              UpdateRecord_errors(method, id, data))
           /\ UNCHANGED <<doctors, patients, appointments, clock, outbox>>

DeleteRecord(actors) ==
    \E u \in actors \ {Absent}, id \in RecordIds :
        LET view == "MedicalRecordRetrieveUpdateDestroyView"
        IN /\ records' = Written(view, "DELETE", u, records,
                                 DeleteRecord_table(id))
           /\ last' = Handled("DeleteRecord", view, "DELETE", u, {id},
                              DeleteRecord_errors(id))
           /\ UNCHANGED <<doctors, patients, appointments, clock, outbox>>

\* The rows of the model class a view works on.
Rows(view) ==
    CASE resource(view) = "Doctor"        -> doctors
      [] resource(view) = "Patient"       -> patients
      [] resource(view) = "Appointment"   -> appointments
      [] resource(view) = "MedicalRecord" -> records

\* The ids a request can name for a row of the view's model class.
Ids(view) ==
    CASE resource(view) = "Doctor"        -> DoctorIds
      [] resource(view) = "Patient"       -> PatientIds
      [] resource(view) = "Appointment"   -> ApptIds
      [] resource(view) = "MedicalRecord" -> RecordIds

\* The targets of a GET: none on a view that lists or is routed without a
\* pk, one id on a view routed with a pk.
Read_targets(view) ==
    IF view \in DetailViews THEN {{id} : id \in Ids(view)} ELSE {{}}

\* SimpleMetadata.determine_actions, which APIView.options calls: for PUT
\* and POST, where the view handles them, it asks the permission classes
\* again as for that method.  It catches their refusal (and the Http404 of
\* get_object), not the AttributeError of a class that reads the role of
\* the anonymous actor.
Metadata_errors(view, u) ==
    IF \E m \in {"PUT", "POST"} \cap declared_methods(view) :
           check_permissions(view, m, u) = "error"
    THEN {"AttributeError"} ELSE {}

\* The handler of a safe request, once the request has been let through.
\* APIView.dispatch asks the permission classes before it looks for the
\* handler: a method the view has no handler for ends in MethodNotAllowed.
\* OPTIONS describes the view.  GET or HEAD on a list view lists the rows;
\* on a retrieve view get_object() looks the row up by the pk of the route:
\* NotFound when no row has it, and an AssertionError on
\* PatientMedicalHistoryView, whose route has no pk.
Read_errors(view, method, u, target) ==
    IF method \notin declared_methods(view) THEN {"MethodNotAllowed"}
    ELSE IF method = "OPTIONS" THEN Metadata_errors(view, u)
    ELSE IF view \in ListViews THEN {}
    ELSE IF view \notin DetailViews THEN {"AssertionError"}
    ELSE IF target \subseteq DOMAIN Rows(view) THEN {} ELSE {"NotFound"}

\* GET, HEAD or OPTIONS on the route of any view; nothing is written.
Read(actors) ==
    \E view \in Views, method \in SAFE_METHODS, u \in actors \ {Absent} :
        \E target \in Read_targets(view) :
            /\ last' = Handled("Read", view, method, u, target,
                               Read_errors(view, method, u, target))
            /\ UNCHANGED <<entities, clock, outbox>>

\* Time passes between operations.
Tick ==
    /\ clock < MaxTime
    /\ clock' = clock + 1
    /\ last' = Outcome("Tick", Absent, Absent, Absent, {}, "allow", {})
    /\ UNCHANGED <<entities, outbox>>

(***************************************************************************)
(* The initial state: the four profiles exist, nothing else does.          *)
(***************************************************************************)
Init ==
    /\ doctors = [d \in DoctorIds |->
                     [specialization |-> "cardiology", experience_years |-> 0]]
    /\ patients = [p \in PatientIds |-> [date_of_birth |-> NullDate]]
    /\ appointments = [i \in {} |-> NoData]
    /\ records = [i \in {} |-> NoData]
    /\ clock = 0
    /\ outbox = <<>>
    /\ last = Outcome("Init", Absent, Absent, Absent, {}, "allow", {})

(***************************************************************************)
(* The appointment operations explored in depth, on the initial profiles.  *)
(***************************************************************************)
\* A complete appointment: every required field sent.
Complete(c) ==
    c.patient # Absent /\ c.doctor # Absent /\ c.appointment_time # NoTime

\* A change of one field only.
StatusOnly(c) ==
    /\ c.patient = Absent /\ c.doctor = Absent /\ c.appointment_time = NoTime
    /\ c.status # Absent

TimeOnly(c) ==
    /\ c.patient = Absent /\ c.doctor = Absent /\ c.appointment_time # NoTime
    /\ c.status = Absent

SchedCreateData ==
    {c \in AppointmentData :
        /\ Complete(c) /\ c.status \in {Absent, "completed"}
        /\ c.appointment_time \in {0, MaxTime}
        /\ c.status = "completed" =>
               /\ c.patient = "p1" /\ c.doctor = "d1"
               /\ c.appointment_time = MaxTime}

SchedUpdateData ==
    {c \in AppointmentData : StatusOnly(c) /\ c.status = "completed"}

SchedReminderData ==
    [patient : PatientIds, appointment_time : {0, MaxTime}]

NextSched ==
    \/ CreateAppointment(SchedCreateData)
    \/ UpdateAppointment(SchedUpdateData)
    \/ RequestReminder({"pat", Anonymous}, SchedReminderData)
    \/ Tick

SpecSched == Init /\ [][NextSched]_vars


(***************************************************************************)
(* The deletion of profiles, with the records and appointments that        *)
(* reference them.  Profiles are created again (directly) with the fields  *)
(* they have initially.                                                    *)
(***************************************************************************)
ParticipantOnly(c) ==
    /\ c.appointment_time = NoTime /\ c.status = Absent
    /\ (c.patient = Absent) # (c.doctor = Absent)

StoreAppointmentData ==
    {c \in AppointmentData :
        Complete(c) /\ c.appointment_time = MaxTime /\ c.status = Absent}

StoreChangeData == {c \in AppointmentData : ParticipantOnly(c)}

StoreDoctorData ==
    {[specialization |-> "cardiology", experience_years |-> NoNumber]}

StorePatientData == {[date_of_birth |-> NoTime]}

StoreRecordData ==
    {c \in RecordData :
        c.patient # Absent /\ c.doctor # Absent /\ c.notes = "note"}

NextStore ==
    \/ CreateAppointment(StoreAppointmentData)
    \/ UpdateAppointment(StoreChangeData)
    \/ CreateDoctor({Absent}, StoreDoctorData)
    \/ CreatePatient({Absent}, StorePatientData)
    \/ DeleteDoctor({"admin", "doc", Absent}, DoctorIds)
    \/ DeletePatient({"staffpat", "admin", Absent}, PatientIds)
    \/ CreateRecord({"doc", Absent}, StoreRecordData)
    \/ DeleteRecord({"doc"})
    \/ Tick

SpecStore == Init /\ [][NextStore]_vars

(***************************************************************************)
(* The writes of appointments, records and profiles, valid and invalid,    *)
(* requested through the views and made directly.                          *)
(***************************************************************************)
WriteAppointmentData == {c \in StoreAppointmentData : c.doctor = "d1"}

WriteChangeData ==
    {c \in AppointmentData :
        \/ ParticipantOnly(c) /\ c.patient = "p2"
        \/ StatusOnly(c) /\ c.status = "canceled"}

WriteDoctorData ==
    {c \in DoctorData :
        \/ c.specialization = "cardiology" /\ c.experience_years \in {0, 0 - 1}
        \/ c.specialization = "" /\ c.experience_years = NoNumber}

WritePatientData ==
    {c \in PatientData : c.date_of_birth \in {NullDate, MaxTime}}

WriteRecordData ==
    {c \in RecordData :
        \/ c.patient = "p1" /\ c.doctor = "d1" /\ c.notes = "note"
        \/ c.patient = Absent /\ c.doctor = Absent /\ c.notes = ""}

PolicyReminderData == {[patient |-> "p1", appointment_time |-> 1]}

NextWrite ==
    \/ CreateAppointment(WriteAppointmentData)
    \/ UpdateAppointment(WriteChangeData)
    \/ CreateRecord({"doc", "pat", Absent}, WriteRecordData)
    \/ CreateDoctor({"admin", "doc"}, WriteDoctorData)
    \/ UpdateDoctor({"doc", Absent}, {"d1"}, WriteDoctorData)
    \/ CreatePatient({"admin", "pat"}, WritePatientData)
    \/ UpdatePatient({"pat", Absent}, {"p1"}, WritePatientData)
    \/ RequestReminder({"pat", Anonymous}, PolicyReminderData)
    \/ Tick

SpecWrite == Init /\ [][NextWrite]_vars

(***************************************************************************)
(* Every route and every actor: every write the view is declared to        *)
(* handle, and every safe method by a user of each role and by the         *)
(* anonymous actor; the data sent is valid and, for a profile, the data    *)
(* the profile already holds.                                              *)
(***************************************************************************)
PolicyRecordData == {c \in StoreRecordData : c.patient = "p1" /\ c.doctor = "d1"}

NextPolicy ==
    \/ Read({"plainadmin", "doc", "pat", Anonymous})
    \/ RequestReminder(Actors, PolicyReminderData)
    \/ CreateDoctor(Actors, StoreDoctorData)
    \/ UpdateDoctor(Actors, DoctorIds, StoreDoctorData)
    \/ DeleteDoctor(Actors, {"d2"})
    \/ CreatePatient(Actors, StorePatientData)
    \/ UpdatePatient(Actors, PatientIds, StorePatientData)
    \/ DeletePatient(Actors, {"p2"})
    \/ CreateRecord(Actors, PolicyRecordData)
    \/ UpdateRecord(Actors, PolicyRecordData)
    \/ DeleteRecord(Actors)
    \/ Tick

SpecPolicy == Init /\ [][NextPolicy]_vars


(***************************************************************************)
(* Updates of every kind of the appointments of p1 with d1, as time passes.*)
(***************************************************************************)
TwiceCreateData ==
    {c \in AppointmentData :
        /\ Complete(c) /\ c.patient = "p1" /\ c.doctor = "d1"
        /\ c.appointment_time = MaxTime /\ c.status = Absent}

\* The changes the properties of an update speak of: of the status, of the
\* time, of one participant, or of every field.
TwiceUpdateData ==
    {c \in AppointmentData :
        \/ StatusOnly(c)
        \/ TimeOnly(c)
        \/ ParticipantOnly(c)
        \/ Complete(c) /\ c.status = "completed"
                       /\ c.appointment_time \in {0, MaxTime}}

\* The changes that are sent.
TwiceSentData ==
    {c \in TwiceUpdateData :
        \/ StatusOnly(c) /\ c.status = "completed"
        \/ TimeOnly(c) /\ c.appointment_time \in {0, MaxTime}
        \/ ParticipantOnly(c) /\ c.patient = "p2"
        \/ Complete(c) /\ c.patient = "p1" /\ c.doctor = "d1"
                       /\ c.appointment_time = MaxTime}

NextTwice ==
    \/ CreateAppointment(TwiceCreateData)
    \/ UpdateAppointment(TwiceSentData)
    \/ Tick

SpecTwice == Init /\ [][NextTwice]_vars


(***************************************************************************)
(* The properties.                                                         *)
(***************************************************************************)
RightPatient(p) == role(patient_user(p)) = "patient"

RightDoctor(d) == d # Absent /\ role(doctor_user(d)) = "doctor"

\* The inputs of a creation: through the serializer any data and a second
\* reading of the clock, directly the fields of a row with its two profiles
\* and the one reading.
CreateInputs ==
    {x \in {"serializer", "model"} \X AppointmentData \X LaterReads(clock) :
        x[1] = "model" => /\ x[2].patient \in DOMAIN patients
                          /\ x[2].doctor \in DOMAIN doctors
                          /\ x[2].appointment_time # NoTime
                          /\ x[3] = clock}

\* Complete data whose two profiles exist.
Resolved(c) ==
    Complete(c) /\ c.patient \in DOMAIN patients /\ c.doctor \in DOMAIN doctors

\* C1: every persisted appointment references a patient profile whose user
\* has the role patient and a doctor profile whose user has the role doctor.
C1_ParticipantRoles ==
    \A a \in DOMAIN appointments :
        /\ RightPatient(appointments[a].patient)
        /\ RightDoctor(appointments[a].doctor)

\* C1's case: an appointment is stored and an update that would have given
\* it a participant of the wrong role has just been refused.
C1_Witness ==
    /\ DOMAIN appointments # {}
    /\ last.op = "UpdateAppointment"
    /\ last.errors \cap {"PatientRole", "DoctorRole"} # {}

\* C2 as stated: a creation is accepted only with a time strictly later
\* than the time of the request, so that every appointment a creation
\* persists has a time later than the clock the creation started at.
C2_StrictlyFuture ==
    [][(last'.op = "CreateAppointment" /\ Succeeded(last')) =>
          \A a \in last'.target :
              appointments'[a].appointment_time > clock]_vars

\* C2 as the code has it: a creation is accepted only with a time not
\* earlier than the time it is validated at.  A time earlier than the time
\* the request arrives at is rejected with InvalidTime, a time equal to the
\* time save() reads is accepted, every accepted time is at or after that
\* reading, and every appointment a creation persists has a time at or
\* after the clock the creation started at.
C2_NotEarlier ==
    /\ [](\A x \in CreateInputs :
             /\ (x[2].appointment_time # NoTime
                 /\ x[2].appointment_time < clock)
                    => "InvalidTime"
                           \in CreateAppointment_errors(x[1], x[2], x[3])
             /\ CreateAppointment_errors(x[1], x[2], x[3]) = {}
                    => x[2].appointment_time >= x[3]
             /\ (Resolved(x[2]) /\ x[2].appointment_time = x[3]
                 /\ RightPatient(x[2].patient) /\ RightDoctor(x[2].doctor))
                    => CreateAppointment_errors(x[1], x[2], x[3]) = {})
    /\ [][(last'.op = "CreateAppointment" /\ Succeeded(last')) =>
             \A a \in last'.target :
                 /\ a \in DOMAIN appointments'
                 /\ appointments'[a].appointment_time >= clock]_vars

\* C2's case: an appointment has just been created with the time at which
\* its row was written.
C2_Witness ==
    /\ last.op = "CreateAppointment" /\ Succeeded(last)
    /\ \E a \in last.target :
           /\ appointments[a].appointment_time = clock
           /\ appointments[a].modified_at = clock

\* C3: a creation reports the first violated rule in the order time,
\* patient role, doctor role: a past time gives InvalidTime whatever the
\* roles; otherwise a patient reference of the wrong role gives the patient
\* side's role error whatever the doctor; otherwise a doctor reference of the
\* wrong role gives the doctor side's; otherwise only a time that has become
\* past when save() reads the clock gives an error, InvalidTime.
C3_FirstViolatedRule ==
    \A x \in CreateInputs :
        Resolved(x[2]) =>
            CreateAppointment_errors(x[1], x[2], x[3]) =
                IF x[2].appointment_time < clock THEN {"InvalidTime"}
                ELSE IF ~RightPatient(x[2].patient) THEN {"PatientRole"}
                ELSE IF ~RightDoctor(x[2].doctor) THEN {"DoctorRole"}
                ELSE IF x[2].appointment_time < x[3] THEN {"InvalidTime"}
                ELSE {}

\* C3's case: a creation has just failed on the patient's role.
C3_Witness ==
    last.op = "CreateAppointment" /\ last.errors = {"PatientRole"}

StatusChange(a, s, partial) ==
    IF partial
    THEN [patient |-> Absent, doctor |-> Absent, appointment_time |-> NoTime,
          status |-> s]
    ELSE [patient |-> appointments[a].patient,
          doctor |-> appointments[a].doctor,
          appointment_time |-> appointments[a].appointment_time,
          status |-> s]

\* C5 as stated: a change of the status alone is accepted even when the
\* appointment's time is already past.
C5_StatusChangeOfPastAppointment ==
    \A a \in DOMAIN appointments, s \in {"completed", "canceled"} :
        appointments[a].appointment_time < clock =>
            /\ UpdateAppointment_errors("serializer", TRUE, a,
                   StatusChange(a, s, TRUE), clock) = {}
            /\ UpdateAppointment_errors("serializer", FALSE, a,
                   StatusChange(a, s, FALSE), clock) = {}
            /\ UpdateAppointment_errors("model", TRUE, a,
                   StatusChange(a, s, TRUE), clock) = {}

\* C6 as stated: a reminder that the patient requests for an existing
\* appointment, delivery working, succeeds (the request is let through and
\* ends without error) exactly when the appointment's time is strictly
\* later than the request time.
C6_ReminderIffFuture ==
    \A a \in DOMAIN appointments :
        (/\ Gate("AppointmentReminderView", "POST", "pat") = "allow"
         /\ RequestReminder_errors(ReminderData(a), "ok", clock) = {})
            <=> (appointments[a].appointment_time > clock)

\* C7 as stated: a reminder for an existing appointment whose time is still
\* to come leaves the appointments as they are, whether delivery works or
\* not; it makes one delivery attempt, and when that fails the request (of
\* the patient, let through) ends with NotificationError.
C7_ReminderFrame ==
    \A a \in DOMAIN appointments, delivery \in {"ok", "fail"} :
        appointments[a].appointment_time > clock =>
            /\ RequestReminder_table(ReminderData(a), clock, clock)
                   = appointments
            /\ delivery = "fail" =>
                   /\ Gate("AppointmentReminderView", "POST", "pat") = "allow"
                   /\ RequestReminder_errors(ReminderData(a), delivery, clock)
                          = {"NotificationError"}
            /\ Len(RequestReminder_mails(ReminderData(a), delivery, clock))
                   = IF delivery = "ok" THEN 1 ELSE 0

\* The records that reference profile `id`.
Referencing(id) ==
    {r \in DOMAIN records : records[r].patient = id \/ records[r].doctor = id}

Profiles == DOMAIN doctors \cup DOMAIN patients

\* C8: a deletion of a profile that at least one record references fails
\* with ProtectedError and deletes nothing; a deletion of a profile that no
\* record references succeeds and removes it, whether or not appointments
\* reference it.
C8_ProtectOnDelete ==
    [][(last'.op = "DeleteProfile" /\ last'.decision = "allow") =>
          \A id \in last'.target :
              id \in Profiles =>
                  IF Referencing(id) # {}
                  THEN /\ last'.errors = {"ProtectedError"}
                       /\ entities' = entities
                  ELSE /\ last'.errors = {}
                       /\ id \notin Profiles'
                       /\ records' = records]_vars

\* C8's case: a deletion has just been refused because a record references
\* the profile, which appointments reference too.
C8_Witness ==
    /\ last.op = "DeleteProfile" /\ last.errors = {"ProtectedError"}
    /\ \E id \in last.target :
           /\ Referencing(id) # {}
           /\ \E a \in DOMAIN appointments :
                  id \in {appointments[a].patient, appointments[a].doctor}

\* The policy table: a write on a Doctor or Patient profile needs the staff
\* flag, a write on an Appointment or a MedicalRecord an authenticated actor
\* whose role is doctor.
TableAllows(kind, u) ==
    IF kind \in {"Doctor", "Patient"} THEN is_staff(u)
    ELSE u \in Users /\ role(u) = "doctor"

\* C9 as stated: on every view that creates, updates or deletes rows of a
\* resource, a write is let through exactly when the policy table allows it
\* for the view's resource.
C9_WritesFollowTable ==
    (last.view \in Views \ {"AppointmentReminderView"}
     /\ last.method \notin SAFE_METHODS) =>
        ((last.decision = "allow")
             <=> TableAllows(resource(last.view), last.actor))

\* C10 as stated: the decision is a function of the role, the operation
\* and the resource kind alone: the decision a request has just got is, in
\* every state, the decision of the same method for every user of the same
\* role on every view of the same resource; and a safe method is allowed.
C10_DecidedByRoleOperationResource ==
    (last.view \in Views /\ last.actor \in Users) =>
        /\ \A view \in Views, u \in Users :
               (resource(view) = resource(last.view)
                /\ role(u) = role(last.actor))
                   => Gate(view, last.method, u) = last.decision
        /\ last.method \in SAFE_METHODS => last.decision = "allow"

\* C11 as stated: an actor with the staff flag is let through on every
\* write, on every view of every resource, whatever its role.
C11_StaffPassesEveryWrite ==
    (last.view \in Views /\ last.method \notin SAFE_METHODS
     /\ is_staff(last.actor)) => last.decision = "allow"

\* C12 as stated: whatever the creation request contains, the appointment
\* that a creation has just persisted has the status scheduled.
C12_CreatedScheduled ==
    (last.op = "CreateAppointment" /\ Succeeded(last)) =>
        \A a \in last.target : appointments[a].status = status_default

\* The ways an update reaches an appointment: a full or a partial update
\* through the serializer, or fields set directly and saved.
UpdateRoutes ==
    {<<"serializer", FALSE>>, <<"serializer", TRUE>>, <<"model", TRUE>>}

\* The readings of the clock an update by route `r` makes after `now`.
UpdateReads(r, now) == IF r[1] = "model" THEN {now} ELSE LaterReads(now)

\* The fields of a row that a client sets.
Fields(row) ==
    [patient |-> row.patient, doctor |-> row.doctor,
     appointment_time |-> row.appointment_time, status |-> row.status]

\* C13 as stated: the same changes (of the status, of the time, of one
\* participant or of every field) applied to the same appointment twice in
\* a row, the second time now or later, leave the stored appointments as
\* applying them once does; and an update hands nothing to the mail backend.
C13_UpdateIdempotent ==
    /\ [](\A r \in UpdateRoutes, id \in DOMAIN appointments,
             data \in TwiceUpdateData :
               \A saved \in UpdateReads(r, clock) :
                 \A written \in LaterReads(saved) :
                   \A again \in written..MaxTime :
                     \A later \in UpdateReads(r, again) :
                       \A rewritten \in LaterReads(later) :
                           LET once == UpdateAppointment_apply(appointments,
                                           clock, saved, written, r[1], r[2],
                                           id, data)
                           IN UpdateAppointment_apply(once, again, later,
                                  rewritten, r[1], r[2], id, data) = once)
    /\ [][last'.op = "UpdateAppointment" => outbox' = outbox]_vars

\* C13 as the code has it: the same changes applied to the same appointment
\* twice in a row leave every appointment with the patient, doctor, time and
\* status that applying them once leaves; modified_at of the appointment is
\* the time of the last application that was saved, so never earlier than
\* after one application, and it is that of one application when the second
\* is rejected; no other appointment changes; and an update hands nothing to
\* the mail backend.
C13_SameFieldsLaterStamp ==
    /\ [](\A r \in UpdateRoutes, id \in DOMAIN appointments,
             data \in TwiceUpdateData :
               \A saved \in UpdateReads(r, clock) :
                 \A written \in LaterReads(saved) :
                   \A again \in written..MaxTime :
                     \A later \in UpdateReads(r, again) :
                       \A rewritten \in LaterReads(later) :
                           LET once == UpdateAppointment_apply(appointments,
                                           clock, saved, written, r[1], r[2],
                                           id, data)
                               twice == UpdateAppointment_apply(once, again,
                                            later, rewritten, r[1], r[2], id,
                                            data)
                               accepted ==
                                   /\ (r[1] = "serializer" =>
                                          AppointmentSerializer_is_valid(
                                              data, r[2], again) = {})
                                   /\ Appointment_checks(
                                          ChangedAppointment(once[id], data),
                                          later) = {}
                           IN /\ DOMAIN twice = DOMAIN once
                              /\ \A i \in DOMAIN once :
                                     /\ Fields(twice[i]) = Fields(once[i])
                                     /\ i # id => twice[i] = once[i]
                              /\ twice[id].modified_at >= once[id].modified_at
                              /\ twice[id].modified_at =
                                     IF accepted THEN rewritten
                                     ELSE once[id].modified_at)
    /\ [][last'.op = "UpdateAppointment" => outbox' = outbox]_vars

\* C13's case: an update has just changed a stored appointment, whose time
\* lies after the clock, so that the same update would pass again, at a
\* time later than the row was first written.
C13_Witness ==
    /\ last.op = "UpdateAppointment" /\ Succeeded(last)
    /\ \E a \in last.target :
           /\ a \in DOMAIN appointments
           /\ appointments[a].appointment_time > clock
           /\ appointments[a].status = "completed"
           /\ appointments[a].modified_at = clock
           /\ clock > 0

\* Changes that carry a time or a participant.
Rescheduling(data) ==
    \/ data.appointment_time # NoTime
    \/ data.patient # Absent \/ data.doctor # Absent

\* C14 as stated: an update that carries a time or a participant and would
\* leave the appointment with a time that is not strictly future, a patient
\* of another role or a doctor of another role is rejected, and the stored
\* appointments stay as they are.
C14_RejectsNonFuture ==
    \A r \in UpdateRoutes, id \in DOMAIN appointments, data \in TwiceUpdateData :
        LET new == ChangedAppointment(appointments[id], data)
        IN (/\ Rescheduling(data)
            /\ \/ new.appointment_time <= clock
               \/ ~RightPatient(new.patient) \/ ~RightDoctor(new.doctor))
           => /\ UpdateAppointment_errors(r[1], r[2], id, data, clock) # {}
              /\ UpdateAppointment_table(r[1], r[2], id, data, clock, clock)
                     = appointments

\* C14 as the code has it: an update that carries a time or a participant
\* and would leave the appointment with a time earlier than the time save()
\* reads, a patient of another role or a doctor of another role is rejected,
\* and the stored appointments stay as they are; one that passes validation
\* and leaves it with the time save() reads and participants of the right
\* roles is accepted and written; so an appointment that an update has just
\* changed has a time at or after the clock the update started at and
\* participants of the right roles.
C14_RejectsPast ==
    /\ [](\A r \in UpdateRoutes, id \in DOMAIN appointments,
             data \in TwiceUpdateData :
               \A later \in UpdateReads(r, clock) :
                 \A stamp \in LaterReads(later) :
                   LET new == ChangedAppointment(appointments[id], data)
                   IN /\ (/\ Rescheduling(data)
                          /\ \/ new.appointment_time < later
                             \/ ~RightPatient(new.patient)
                             \/ ~RightDoctor(new.doctor))
                         => /\ UpdateAppointment_errors(r[1], r[2], id, data,
                                                        later) # {}
                            /\ UpdateAppointment_table(r[1], r[2], id, data,
                                                       later, stamp)
                                   = appointments
                      /\ (/\ Rescheduling(data)
                          /\ r[1] = "serializer" =>
                                 AppointmentSerializer_is_valid(data, r[2],
                                                                clock) = {}
                          /\ new.appointment_time = later
                          /\ RightPatient(new.patient)
                          /\ RightDoctor(new.doctor))
                         => /\ UpdateAppointment_errors(r[1], r[2], id, data,
                                                        later) = {}
                            /\ UpdateAppointment_table(r[1], r[2], id, data,
                                                       later, stamp)
                                   = Put(appointments, id, Stamped(new, stamp)))
    /\ [][(last'.op = "UpdateAppointment" /\ Succeeded(last')) =>
             \A a \in last'.target :
                 /\ a \in DOMAIN appointments'
                 /\ appointments'[a].appointment_time >= clock
                 /\ RightPatient(appointments'[a].patient)
                 /\ RightDoctor(appointments'[a].doctor)]_vars

\* C14's case: an update of a stored appointment has just been rejected for
\* its time, and the appointment still has a time that is not past.
C14_Witness ==
    /\ last.op = "UpdateAppointment" /\ last.errors = {"InvalidTime"}
    /\ \E a \in last.target :
           /\ a \in DOMAIN appointments
           /\ appointments[a].appointment_time >= clock

\* C15: every stored appointment and every stored record references a
\* patient profile and a doctor profile that exist; a deletion of a profile
\* that succeeds leaves no appointment that references the profile and keeps
\* every other appointment; and no deletion of a profile, successful or not,
\* removes or changes a record.
C15_ReferencesExist ==
    /\ [](/\ \A a \in DOMAIN appointments :
                /\ appointments[a].patient \in DOMAIN patients
                /\ appointments[a].doctor \in DOMAIN doctors
          /\ \A r \in DOMAIN records :
                /\ records[r].patient \in DOMAIN patients
                /\ records[r].doctor \in DOMAIN doctors)
    /\ [][last'.op = "DeleteProfile" =>
             /\ records' = records
             /\ Succeeded(last') =>
                    \A id \in last'.target :
                        appointments' =
                            Without(appointments,
                                    {a \in DOMAIN appointments :
                                        id \in {appointments[a].patient,
                                                appointments[a].doctor}})]_vars

\* C15's case: a profile has just been deleted while a record (of other
\* profiles) is stored, and no appointment is left.
C15_Witness ==
    /\ last.op = "DeleteProfile" /\ Succeeded(last)
    /\ last.target # {}
    /\ DOMAIN records # {}
    /\ DOMAIN appointments = {}

====
